---- MODULE Spec2Model ----
(***************************************************************************)
(* Model of src/PS1/src/algorithm.ts: the scheduling core of a spaced      *)
(* repetition flashcard trainer.  Every exported function is a pure        *)
(* function of its arguments; each is an operator here, and one action per *)
(* function applies it to the current bucket assignment (or to the result  *)
(* of the previous call) and records the call in op / arg / ret.           *)
(*                                                                         *)
(* A BucketMap (Map<number, Set<Flashcard>>) is a function whose domain is *)
(* the set of keys of the Map.  An Array<Set<Flashcard>> is a sequence:    *)
(* array index i is position i + 1.  A flashcard is its identity (a number *)
(* of Cards); getHint alone reads a card's text, and takes a record of the *)
(* fields it reads.  A string is a sequence of one-character strings.      *)
(***************************************************************************)
EXTENDS Integers, Sequences, FiniteSets, TLC

VARIABLES buckets, op, arg, ret, calls

vars == <<buckets, op, arg, ret, calls>>

\* ------------------------------------------------------------------ bounds
NumCards == 2
MaxKey == 8
MaxBuckets == 3
MaxCalls == 2
MaxDay == 16
MaxFrontLen == 5
MaxHintLen == 2

Cards == 1..NumCards
Difficulties == {"Wrong", "Hard", "Easy"}

\* ----------------------------------------------------------- toBucketSets
\* Math.max(...keys, 0)
RECURSIVE MathMax(_, _)
MathMax(S, acc) ==
  IF S = {} THEN acc
  ELSE LET x == CHOOSE y \in S : TRUE
       IN MathMax(S \ {x}, IF x > acc THEN x ELSE acc)

\* Faulty variant: the empty map is not special-cased, so it yields [new Set()].
ToBucketSetsNoEmptyCase(b) ==
  LET maxBucketNumber == MathMax(DOMAIN b, 0)
  IN [i \in 1..(maxBucketNumber + 1) |->
        IF (i - 1) \in DOMAIN b THEN b[i - 1] ELSE {}]

\* Faulty variant: the array is allocated one slot too long.
ToBucketSetsOffByOne(b) ==
  IF Cardinality(DOMAIN b) = 0 THEN <<>>
  ELSE LET maxBucketNumber == MathMax(DOMAIN b, 0)
       IN [i \in 1..(maxBucketNumber + 2) |->
             IF (i - 1) \in DOMAIN b THEN b[i - 1] ELSE {}]

ToBucketSets(b) ==
  IF Cardinality(DOMAIN b) = 0 THEN <<>>
  ELSE LET maxBucketNumber == MathMax(DOMAIN b, 0)
       IN [i \in 1..(maxBucketNumber + 1) |->
             IF (i - 1) \in DOMAIN b THEN b[i - 1] ELSE {}]

\* --------------------------------------------------------- getBucketRange
\* JavaScript numbers that may be infinite: <<0, n>> is n, <<1, 0>> is
\* Infinity, <<-1, 0>> is -Infinity.
Fin(n) == <<0, n>>
Infinity == <<1, 0>>
NegInfinity == <<-1, 0>>
NumLess(a, b) == a[1] < b[1] \/ (a[1] = 0 /\ b[1] = 0 /\ a[2] < b[2])
MathMin2(a, b) == IF NumLess(b, a) THEN b ELSE a
MathMax2(a, b) == IF NumLess(a, b) THEN b ELSE a

Undefined == [undefined |-> TRUE]

\* Faulty variant: the filter on size > 0 is missing.
RECURSIVE PopulatedNoFilter(_, _)
PopulatedNoFilter(d, i) ==
  IF i > Len(d) THEN <<>>
  ELSE << [size |-> Cardinality(d[i]), idx |-> i - 1] >>
         \o PopulatedNoFilter(d, i + 1)

\* buckets.map((bucket, idx) => ({size, idx})).filter(item => item.size > 0)
RECURSIVE Populated(_, _)
Populated(d, i) ==
  IF i > Len(d) THEN <<>>
  ELSE (IF Cardinality(d[i]) > 0
          THEN << [size |-> Cardinality(d[i]), idx |-> i - 1] >>
          ELSE <<>>) \o Populated(d, i + 1)

RECURSIVE ReduceMin(_, _, _)
ReduceMin(items, i, acc) ==
  IF i > Len(items) THEN acc
  ELSE ReduceMin(items, i + 1, MathMin2(acc, Fin(items[i].idx)))

RECURSIVE ReduceMax(_, _, _)
ReduceMax(items, i, acc) ==
  IF i > Len(items) THEN acc
  ELSE ReduceMax(items, i + 1, MathMax2(acc, Fin(items[i].idx)))

GetBucketRange(d) ==
  LET populatedBuckets == Populated(d, 1)
  IN IF Len(populatedBuckets) = 0 THEN Undefined
     ELSE [minBucket |-> ReduceMin(populatedBuckets, 1, Infinity),
           maxBucket |-> ReduceMax(populatedBuckets, 1, NegInfinity)]

\* --------------------------------------------------------------- practice
\* Faulty variant: the interval of bucket i is i + 1 days instead of 2^i.
IsDueLinear(day, index) == day % (index + 1) = 0

\* day % Math.pow(2, index) === 0
IsDue(day, index) == day % (2 ^ index) = 0

Practice(d, day) ==
  UNION {d[i] : i \in {j \in 1..Len(d) :
                          Cardinality(d[j]) > 0 /\ IsDue(day, j - 1)}}

\* ----------------------------------------------------------------- update
\* The Set objects live in a heap: a reference is <<"in", k>> (the Set the
\* input Map holds under key k) or <<"new", k>> (a Set made by update).  A
\* Map is a function from keys to references.
InputMap(b) == [k \in DOMAIN b |-> <<"in", k>>]
InputHeap(b) == [r \in {<<"in", k>> : k \in DOMAIN b} |-> b[r[2]]]

\* Faulty variant: the Map is copied, the Sets are shared (new Map(buckets)).
CopyBucketsShallow(b) == [map |-> InputMap(b), heap |-> InputHeap(b)]

\* newBuckets.set(Number(bucket), new Set(cards)) for every entry
CopyBuckets(b) ==
  [map  |-> [k \in DOMAIN b |-> <<"new", k>>],
   heap |-> [r \in {<<"in", k>> : k \in DOMAIN b}
                    \cup {<<"new", k>> : k \in DOMAIN b} |-> b[r[2]]]]

\* The buckets whose input Set holds the card.
Holders(b, card) == {k \in DOMAIN b : card \in b[k]}

\* currentBucketNum after the forEach: -1 when no bucket holds the card.
\* With the card in more than one bucket the code keeps the last one in
\* the Map's insertion order, which this model does not track; the
\* assignments of Init hold a card in at most one bucket.
CurrentBucketNum(b, card) ==
  IF Holders(b, card) = {} THEN -1
  ELSE CHOOSE k \in Holders(b, card) : TRUE

\* Faulty variant: the card is not deleted from the bucket that holds it.
RemoveCardKeep(st, b, card) == st

\* newBuckets.get(bucketNum)!.delete(card) for every holder
RemoveCard(st, b, card) ==
  LET touched == {st.map[k] : k \in Holders(b, card)}
  IN [st EXCEPT !.heap =
        [r \in DOMAIN st.heap |->
           IF r \in touched THEN st.heap[r] \ {card} ELSE st.heap[r]]]

Min2(a, b) == IF a < b THEN a ELSE b

\* Faulty variant: Easy advances by one bucket, as Hard does.
TargetBucketEasyOne(currentBucketNum, difficulty) ==
  IF difficulty = "Easy" THEN Min2(currentBucketNum + 1, 7)
  ELSE IF difficulty = "Hard" THEN Min2(currentBucketNum + 1, 7)
  ELSE 0

\* Faulty variant: the ceiling is not applied.
TargetBucketNoCeiling(currentBucketNum, difficulty) ==
  IF difficulty = "Easy" THEN currentBucketNum + 2
  ELSE IF difficulty = "Hard" THEN currentBucketNum + 1
  ELSE 0

TargetBucket(currentBucketNum, difficulty) ==
  IF difficulty = "Easy" THEN Min2(currentBucketNum + 2, 7)
  ELSE IF difficulty = "Hard" THEN Min2(currentBucketNum + 1, 7)
  ELSE 0

\* if (!newBuckets.has(targetBucket)) newBuckets.set(targetBucket, new Set())
EnsureBucket(st, targetBucket) ==
  IF targetBucket \in DOMAIN st.map THEN st
  ELSE [map  |-> (targetBucket :> <<"new", targetBucket>>) @@ st.map,
        heap |-> (<<"new", targetBucket>> :> {}) @@ st.heap]

\* newBuckets.get(targetBucket)!.add(card)
AddCard(st, targetBucket, card) ==
  [st EXCEPT !.heap[st.map[targetBucket]] = @ \cup {card}]

\* The call as a whole: output is the returned Map read through the heap,
\* input is the argument Map read through the heap after the call.
Update(b, card, difficulty) ==
  LET copied == CopyBuckets(b)
      removed == RemoveCard(copied, b, card)
      targetBucket == TargetBucket(CurrentBucketNum(b, card), difficulty)
      ensured == EnsureBucket(removed, targetBucket)
      final == AddCard(ensured, targetBucket, card)
  IN [output |-> [k \in DOMAIN final.map |-> final.heap[final.map[k]]],
      input  |-> [k \in DOMAIN b |-> final.heap[InputMap(b)[k]]]]

\* ---------------------------------------------------------------- getHint
IsSpace(ch) == ch = " "

RECURSIVE TrimStart(_)
TrimStart(s) ==
  IF s # <<>> /\ IsSpace(Head(s)) THEN TrimStart(Tail(s)) ELSE s

RECURSIVE TrimEnd(_)
TrimEnd(s) ==
  IF s # <<>> /\ IsSpace(s[Len(s)])
    THEN TrimEnd(SubSeq(s, 1, Len(s) - 1)) ELSE s

Trim(s) == TrimEnd(TrimStart(s))

\* String.prototype.substring with 0 <= start <= end
Substring(s, start, end) == SubSeq(s, Min2(start, Len(s)) + 1, Min2(end, Len(s)))

\* String.prototype.repeat: a negative count throws RangeError.
Repeat(ch, count) ==
  IF count < 0 THEN [threw |-> TRUE, value |-> <<>>]
  ELSE [threw |-> FALSE, value |-> [i \in 1..count |-> ch]]

Concat(prefix, rep) ==
  IF rep.threw THEN rep ELSE [threw |-> FALSE, value |-> prefix \o rep.value]

GetHint(card) ==
  IF card.hasHint /\ card.hint # <<>> /\ Len(Trim(card.hint)) > 0
    THEN [threw |-> FALSE, value |-> card.hint]
  ELSE LET frontText == card.front
       IN IF Len(frontText) <= 3
            THEN Concat(Substring(frontText, 0, 1),
                        Repeat("*", Len(frontText) - 1))
            ELSE Concat(Substring(frontText, 0, 3),
                        Repeat("*", Len(frontText) - 3))

\* -------------------------------------------------------- computeProgress
\* Faulty variant: the Intermediate stage ends at bucket 3.
StagesShort ==
  << [name |-> "Beginner", minBucket |-> 0, maxBucket |-> 1],
     [name |-> "Intermediate", minBucket |-> 2, maxBucket |-> 3],
     [name |-> "Advanced", minBucket |-> 5, maxBucket |-> 7] >>

Stages ==
  << [name |-> "Beginner", minBucket |-> 0, maxBucket |-> 1],
     [name |-> "Intermediate", minBucket |-> 2, maxBucket |-> 4],
     [name |-> "Advanced", minBucket |-> 5, maxBucket |-> 7] >>

\* The sum of cardSet.size over the buckets keyed in K.
RECURSIVE SumSizes(_, _)
SumSizes(b, K) ==
  IF K = {} THEN 0
  ELSE LET k == CHOOSE x \in K : TRUE
       IN Cardinality(b[k]) + SumSizes(b, K \ {k})

\* (stageCards / totalCards) * 100 as the exact fraction num / den; the
\* code's floating-point result is this fraction rounded.
Percentage(stageCards, totalCards) ==
  IF totalCards > 0 THEN [num |-> stageCards * 100, den |-> totalCards]
  ELSE [num |-> 0, den |-> 1]

ComputeProgress(b, history) ==
  LET totalCards == SumSizes(b, DOMAIN b)
      breakdown(stage) ==
        LET stageCards ==
              SumSizes(b, {k \in DOMAIN b :
                             k >= stage.minBucket /\ k <= stage.maxBucket})
        IN [stage |-> stage.name,
            cardCount |-> stageCards,
            percentage |-> Percentage(stageCards, totalCards)]
  IN [totalCards |-> totalCards,
      stageBreakdown |-> [i \in 1..Len(Stages) |-> breakdown(Stages[i])]]

\* ------------------------------------------------------------ the inputs
\* place[c] is the set of buckets holding card c: empty, or one bucket.  The
\* assignment that keys the buckets of K and puts each card where place says.
Places(K) == [Cards -> {{}} \cup {{k} : k \in K}]
AssignmentOf(K, place) == [k \in K |-> {c \in Cards : k \in place[c]}]

\* The sets of at most MaxBuckets keys, all in 0..MaxKey.
KeySets == {K \in SUBSET (0..MaxKey) : Cardinality(K) <= MaxBuckets}

Strings(alphabet, n) == UNION {[1..k -> alphabet] : k \in 0..n}

HintCards ==
  {[front |-> f, hint |-> h, hasHint |-> p] :
     f \in Strings({"a", "b"}, MaxFrontLen),
     h \in Strings({"h", " "}, MaxHintLen),
     p \in BOOLEAN}

Histories == [Cards -> {<<>>, <<"Easy", "Wrong">>}]

NoArg == [none |-> TRUE]

\* Every assignment of the cards to buckets 0..MaxKey, a bucket being keyed
\* when it holds a card; update calls leave empty buckets behind.
Init ==
  /\ \E place \in Places(0..MaxKey) :
       buckets = AssignmentOf(UNION {place[c] : c \in Cards}, place)
  /\ op = "init"
  /\ arg = NoArg
  /\ ret = NoArg
  /\ calls = 0

\* Every assignment with at most MaxBuckets keyed buckets, empty ones
\* included.
InitQuery ==
  /\ \E K \in KeySets :
       \E place \in Places(K) :
         buckets = AssignmentOf(K, place)
  /\ op = "init"
  /\ arg = NoArg
  /\ ret = NoArg
  /\ calls = 0

\* ------------------------------------------------------------ the actions
\* update(buckets, card, difficulty); the caller keeps the returned Map.
UpdateCall(card, difficulty) ==
  /\ calls < MaxCalls
  /\ LET r == Update(buckets, card, difficulty)
     IN /\ buckets' = r.output
        /\ ret' = r.output
        /\ arg' = [buckets |-> buckets, card |-> card,
                   difficulty |-> difficulty, after |-> r.input]
  /\ op' = "update"
  /\ calls' = calls + 1

ToBucketSetsCall ==
  /\ op = "init"
  /\ op' = "toBucketSets"
  /\ arg' = [buckets |-> buckets]
  /\ ret' = ToBucketSets(buckets)
  /\ UNCHANGED <<buckets, calls>>

\* toBucketSets on its own output, the array read as a Map from index to Set.
RenormalizeCall ==
  /\ op = "toBucketSets"
  /\ op' = "renormalize"
  /\ arg' = [dense |-> ret]
  /\ ret' = ToBucketSets([k \in 0..(Len(ret) - 1) |-> ret[k + 1]])
  /\ UNCHANGED <<buckets, calls>>

GetBucketRangeCall ==
  /\ op = "toBucketSets"
  /\ op' = "getBucketRange"
  /\ arg' = [dense |-> ret]
  /\ ret' = GetBucketRange(ret)
  /\ UNCHANGED <<buckets, calls>>

PracticeCall(day) ==
  /\ op = "toBucketSets"
  /\ op' = "practice"
  /\ arg' = [dense |-> ret, day |-> day]
  /\ ret' = Practice(ret, day)
  /\ UNCHANGED <<buckets, calls>>

ComputeProgressCall(history) ==
  /\ op = "init"
  /\ op' = "computeProgress"
  /\ arg' = [buckets |-> buckets, history |-> history]
  /\ ret' = ComputeProgress(buckets, history)
  /\ UNCHANGED <<buckets, calls>>

GetHintCall(card) ==
  /\ op = "init"
  /\ op' = "getHint"
  /\ arg' = card
  /\ ret' = GetHint(card)
  /\ UNCHANGED <<buckets, calls>>

\* Sequences of update calls.
Next == \E card \in Cards, difficulty \in Difficulties :
          UpdateCall(card, difficulty)

Spec == Init /\ [][Next]_vars

\* The read-only functions on every assignment of InitQuery.
NextQuery ==
  \/ ToBucketSetsCall
  \/ RenormalizeCall
  \/ GetBucketRangeCall
  \/ \E day \in 0..MaxDay : PracticeCall(day)
  \/ \E history \in Histories : ComputeProgressCall(history)

SpecQuery == InitQuery /\ [][NextQuery]_vars

\* getHint on every card text; the bucket assignment plays no part.
InitHint ==
  /\ buckets = <<>>
  /\ op = "init"
  /\ arg = NoArg
  /\ ret = NoArg
  /\ calls = 0

NextHint == \E card \in HintCards : GetHintCall(card)

SpecHint == InitHint /\ [][NextHint]_vars

\* ------------------------------------------------------------ the claims
\* The buckets of assignment b that hold card c.
InBuckets(b, c) == {k \in DOMAIN b : c \in b[k]}

\* The destination the specification gives for source bucket s.
ExpectedBucket(s, difficulty) ==
  IF difficulty = "Easy" THEN (IF s + 2 <= 7 THEN s + 2 ELSE 7)
  ELSE IF difficulty = "Hard" THEN (IF s + 1 <= 7 THEN s + 1 ELSE 7)
  ELSE 0

\* C1: when the card is in exactly one bucket s, update returns an
\* assignment with the card in bucket min(s + 2, 7) for Easy, min(s + 1, 7)
\* for Hard and 0 for Wrong, and the card is no longer in bucket s unless
\* the destination is s.
C1_UpdateDestination ==
  (op = "update" /\ Cardinality(InBuckets(arg.buckets, arg.card)) = 1) =>
    \A s \in InBuckets(arg.buckets, arg.card) :
      LET d == ExpectedBucket(s, arg.difficulty)
      IN /\ d \in DOMAIN ret
         /\ arg.card \in ret[d]
         /\ (d # s => arg.card \notin ret[s])

\* An Easy answer moved a card from bucket 0 to bucket 2.
C1_Witness ==
  /\ op = "update"
  /\ arg.difficulty = "Easy"
  /\ InBuckets(arg.buckets, arg.card) = {0}
  /\ InBuckets(ret, arg.card) = {2}

\* C2: after any sequence of update calls every flashcard is in at most one
\* bucket, and the card just updated is in exactly one.
C2_OneBucketPerCard ==
  /\ \A c \in Cards : Cardinality(InBuckets(buckets, c)) <= 1
  /\ op = "update" => Cardinality(InBuckets(buckets, arg.card)) = 1

\* Two calls in a row, the second moving a card that a bucket held, with
\* every card placed afterwards.
C2_Witness ==
  /\ op = "update"
  /\ calls >= 2
  /\ InBuckets(arg.buckets, arg.card) # {}
  /\ InBuckets(buckets, arg.card) # InBuckets(arg.buckets, arg.card)
  /\ \A c \in Cards : Cardinality(InBuckets(buckets, c)) = 1

\* C3: on an input whose bucket numbers are all in [0, 7], for a card that
\* is present or absent and any outcome, every bucket number of the result
\* is in [0, 7]; Easy from bucket 6 or 7 puts the card in bucket 7 and
\* creates no bucket 8.
C3_BucketCeiling ==
  (op = "update" /\ DOMAIN arg.buckets \subseteq 0..7) =>
    /\ DOMAIN ret \subseteq 0..7
    /\ (arg.difficulty = "Easy"
          /\ InBuckets(arg.buckets, arg.card) \cap {6, 7} # {})
       => (7 \in DOMAIN ret /\ arg.card \in ret[7] /\ 8 \notin DOMAIN ret)

\* An Easy answer on a card of bucket 6 put it in bucket 7.
C3_Witness ==
  /\ op = "update"
  /\ arg.difficulty = "Easy"
  /\ DOMAIN arg.buckets \subseteq 0..7
  /\ InBuckets(arg.buckets, arg.card) = {6}
  /\ InBuckets(ret, arg.card) = {7}

\* C4: update leaves its input as it was, keeps every key of the input,
\* leaves every bucket other than the card's source and destination with
\* the same cards, and adds no key but the destination.
C4_Frame ==
  op = "update" =>
    LET b == arg.buckets
        src == InBuckets(b, arg.card)
        dst == {ExpectedBucket(IF src = {} THEN -1 ELSE CHOOSE s \in src : TRUE,
                               arg.difficulty)}
    IN /\ arg.after = b
       /\ DOMAIN b \subseteq DOMAIN ret
       /\ \A k \in DOMAIN b \ (src \cup dst) : ret[k] = b[k]
       /\ (DOMAIN ret \ DOMAIN b) \subseteq dst

\* The card left its bucket empty but keyed, another bucket kept its cards,
\* and the destination bucket was created.
C4_Witness ==
  /\ op = "update"
  /\ \E s \in InBuckets(arg.buckets, arg.card) :
       /\ ret[s] = {}
       /\ \E k \in DOMAIN arg.buckets \ {s} :
            arg.buckets[k] # {} /\ ret[k] = arg.buckets[k]
  /\ DOMAIN ret # DOMAIN arg.buckets

\* n divides day.
Divides(n, day) == \E q \in 0..day : q * n = day

C6_ToBucketSets ==
  op = "toBucketSets" =>
    LET b == arg.buckets
    IN IF DOMAIN b = {} THEN ret = <<>>
       ELSE /\ \E m \in DOMAIN b :
                 (\A k \in DOMAIN b : k <= m) /\ Len(ret) = m + 1
            /\ \A i \in 0..(Len(ret) - 1) :
                 ret[i + 1] = IF i \in DOMAIN b THEN b[i] ELSE {}

\* Keys 0 and 2 give three sets, the middle one empty.
C6_Witness ==
  /\ op = "toBucketSets"
  /\ DOMAIN arg.buckets = {0, 2}
  /\ arg.buckets[0] # {} /\ arg.buckets[2] # {}
  /\ Len(ret) = 3
  /\ ret[2] = {}

\* C7: toBucketSets applied to its own output, read as a map from index to
\* set, returns a sequence of the same length with the same set at every
\* index.
C7_Idempotent ==
  op = "renormalize" =>
    /\ Len(ret) = Len(arg.dense)
    /\ \A i \in 1..Len(ret) : ret[i] = arg.dense[i]

\* Renormalising a sequence with a gap and a populated last bucket.
C7_Witness ==
  /\ op = "renormalize"
  /\ Len(arg.dense) = 4
  /\ arg.dense[2] = {} /\ arg.dense[4] # {}
  /\ ret = arg.dense

IsUndefined(r) == "undefined" \in DOMAIN r

\* C9: getBucketRange returns undefined iff every set is empty; otherwise
\* minBucket is the smallest and maxBucket the largest index of a non-empty
\* set, minBucket <= maxBucket, and they are equal when one index is
\* populated.
C9_BucketRange ==
  op = "getBucketRange" =>
    LET d == arg.dense
        pop == {i \in 0..(Len(d) - 1) : d[i + 1] # {}}
    IN /\ IsUndefined(ret) <=> pop = {}
       /\ pop # {} =>
            /\ \E lo \in pop : (\A i \in pop : lo <= i) /\ ret.minBucket = Fin(lo)
            /\ \E hi \in pop : (\A i \in pop : i <= hi) /\ ret.maxBucket = Fin(hi)
            /\ ~NumLess(ret.maxBucket, ret.minBucket)
            /\ Cardinality(pop) = 1 => ret.minBucket = ret.maxBucket

\* The range of [{}, {c}, {}, {c'}] is 1..3.
C9_Witness ==
  /\ op = "getBucketRange"
  /\ Len(arg.dense) = 4
  /\ arg.dense[1] = {} /\ arg.dense[3] = {}
  /\ ret = [minBucket |-> Fin(1), maxBucket |-> Fin(3)]

\* The cards of assignment b in the buckets lo..hi.
CardsIn(b, lo, hi) ==
  {c \in Cards : \E k \in DOMAIN b : lo <= k /\ k <= hi /\ c \in b[k]}

\* What C10 says of every call but the sum of the stage counts.
ProgressShape ==
  LET b == arg.buckets
      st == ret.stageBreakdown
  IN /\ ret.totalCards = Cardinality(UNION {b[k] : k \in DOMAIN b})
     /\ Len(st) = 3
     /\ st[1].stage = "Beginner"
     /\ st[1].cardCount = Cardinality(CardsIn(b, 0, 1))
     /\ st[2].stage = "Intermediate"
     /\ st[2].cardCount = Cardinality(CardsIn(b, 2, 4))
     /\ st[3].stage = "Advanced"
     /\ st[3].cardCount = Cardinality(CardsIn(b, 5, 7))
     /\ ret.totalCards = 0 => \A i \in 1..3 : st[i].percentage.num = 0

StageSum ==
  ret.stageBreakdown[1].cardCount + ret.stageBreakdown[2].cardCount
    + ret.stageBreakdown[3].cardCount

\* C10 as stated: for every sparse assignment, total and stage counts are
\* the cards of all buckets and of buckets 0-1, 2-4, 5-7, the stage counts
\* add up to totalCards, and every percentage is 0 when totalCards is 0.
C10_ProgressAsStated ==
  op = "computeProgress" => (ProgressShape /\ StageSum = ret.totalCards)

\* C10 amended: as stated, except that the stage counts add up to the cards
\* of buckets 0..7, which is totalCards when every bucket number is in
\* [0, 7].
C10_Progress ==
  op = "computeProgress" =>
    /\ ProgressShape
    /\ StageSum = Cardinality(CardsIn(arg.buckets, 0, 7))
    /\ DOMAIN arg.buckets \subseteq 0..7 => StageSum = ret.totalCards

\* Two cards in two stages, every bucket number in [0, 7].
C10_Witness ==
  /\ op = "computeProgress"
  /\ DOMAIN arg.buckets \subseteq 0..7
  /\ ret.totalCards = 2
  /\ ret.stageBreakdown[2].cardCount = 1
  /\ ret.stageBreakdown[3].cardCount = 1

\* C8: for a card whose hint is absent, empty or whitespace-only, getHint
\* raises no exception and returns a string as long as front: its first
\* character when front has at most 3 characters, its first 3 otherwise,
\* then one '*' per remaining character.
C8_GeneratedHint ==
  (op = "getHint" /\ (~arg.hasHint \/ \A i \in 1..Len(arg.hint) : arg.hint[i] = " "))
    => /\ ~ret.threw
       /\ Len(ret.value) = Len(arg.front)
       /\ LET n == IF Len(arg.front) <= 3 THEN 1 ELSE 3
          IN \A i \in 1..Len(arg.front) :
               ret.value[i] = IF i <= n THEN arg.front[i] ELSE "*"

====
